---- MODULE Spec2Model ----
(***************************************************************************)
(* Model of the App component of src/src/App.tsx: the form state held in   *)
(* React hooks, the three change handlers, the submit handler with its two *)
(* suspension points (the fetch and the reading of the body), and the      *)
(* remote endpoint as the environment that settles them.                   *)
(*                                                                         *)
(* A string is a sequence of symbols.  A symbol is one character, or one   *)
(* literal text of the program (a catalogue entry, a line of a template);  *)
(* what the user types is made of characters, and the endpoint's replies   *)
(* are made of characters or are the text of the failure message itself.   *)
(***************************************************************************)
EXTENDS Integers, Sequences, FiniteSets

VARIABLES
    inputMessage,       \* useState(""), line 40
    outputMessage,      \* useState(""), line 41
    loading,            \* useState(false), line 42
    mode,               \* useState("Email"), line 43
    customInstruction,  \* useState(""), line 44
    calls,              \* the invocations of handleSubmit that are suspended at an await
    last                \* history: the handler or continuation that ran last, and what it saw

vars == <<inputMessage, outputMessage, loading, mode, customInstruction, calls, last>>

----------------------------------------------------------------------------
(* Bounds of the model *)

MaxInputLen == 1
MaxCustomLen == 1
MaxReplyLen == 3
MaxCalls == 2

InputChars == {" ", "\n", "a"}
CustomChars == {"x"}
ReplyChars == {" ", "h"}

StringsUpTo(chars, n) == UNION {[1..k -> chars] : k \in 0..n}

InputStrings == StringsUpTo(InputChars, MaxInputLen)
CustomStrings == StringsUpTo(CustomChars, MaxCustomLen)
\* the strings the endpoint sends as content: short ones, and the very text the
\* component shows on failure
ReplyStrings ==
    StringsUpTo(ReplyChars, MaxReplyLen)
        \cup {<<"Sorry, something went wrong. Please try again.">>}

\* event.target.value of the mode selector: the cast of line 48 is erased at
\* run time, so any string can arrive; two strings outside the catalogue stand
\* for the rest, one of them the name of a member every object inherits.
ModeValues == {"Email", "Chat", "Report", "Notification", "Other", "constructor"}

\* response.status values the endpoint answers with
StatusCodes == {200, 404}

----------------------------------------------------------------------------
(* JavaScript values and the operations the component applies to them *)

WhiteSpace == {" ", "\t", "\n", "\r"}

RECURSIVE TrimStart(_)
TrimStart(s) ==
    IF s # <<>> /\ Head(s) \in WhiteSpace THEN TrimStart(Tail(s)) ELSE s

RECURSIVE TrimEnd(_)
TrimEnd(s) ==
    IF s # <<>> /\ s[Len(s)] \in WhiteSpace
    THEN TrimEnd(SubSeq(s, 1, Len(s) - 1))
    ELSE s

\* String.prototype.trim
trim(s) == TrimEnd(TrimStart(s))

JsUndefined == [t |-> "undefined"]
JsNull == [t |-> "null"]
JsString(s) == [t |-> "string", v |-> s]
JsNumber(n) == [t |-> "number", v |-> n]
JsFunction(name) == [t |-> "function", name |-> name]
JsArray(items) == [t |-> "array", items |-> items]
JsObject(props) == [t |-> "object", props |-> props]

\* The members an object literal inherits from Object.prototype.
ObjectPrototype ==
    {"constructor", "toString", "toLocaleString", "valueOf", "hasOwnProperty",
     "isPrototypeOf", "propertyIsEnumerable"}

\* o[name] on a value that is neither null nor undefined
GetProp(o, name) ==
    IF o.t = "object" /\ name \in DOMAIN o.props THEN o.props[name]
    ELSE IF o.t = "object" /\ name \in ObjectPrototype THEN JsFunction(name)
    ELSE JsUndefined

\* a[i] on a value that is neither null nor undefined (JavaScript counts from 0)
GetIndex(a, i) ==
    IF a.t = "array" /\ (i + 1) \in DOMAIN a.items THEN a.items[i + 1]
    ELSE JsUndefined

\* ToBoolean
Truthy(v) ==
    CASE v.t = "undefined" -> FALSE
      [] v.t = "null" -> FALSE
      [] v.t = "string" -> v.v # <<>>
      [] v.t = "number" -> v.v # 0
      [] OTHER -> TRUE

\* ToString, as a template literal applies it
ToString(v) ==
    CASE v.t = "string" -> v.v
      [] v.t = "undefined" -> <<"undefined">>
      [] v.t = "null" -> <<"null">>
      [] v.t = "function" ->
            <<"function ", IF v.name = "constructor" THEN "Object" ELSE v.name,
              "() { [native code] }">>
      [] OTHER -> <<"[object Object]">>

\* The result of evaluating an expression: a value, or a thrown TypeError.
Normal(v) == [thrown |-> FALSE, value |-> v]
Thrown == [thrown |-> TRUE, value |-> JsUndefined]

Nullish(v) == v.t \in {"undefined", "null"}

\* c.name
Member(c, name) ==
    IF c.thrown THEN c
    ELSE IF Nullish(c.value) THEN Thrown
    ELSE Normal(GetProp(c.value, name))

\* c[i]
Element(c, i) ==
    IF c.thrown THEN c
    ELSE IF Nullish(c.value) THEN Thrown
    ELSE Normal(GetIndex(c.value, i))

\* c.trim(): only a string has a trim method
CallTrim(c) ==
    IF c.thrown THEN c
    ELSE IF c.value.t = "string" THEN Normal(JsString(trim(c.value.v)))
    ELSE Thrown


----------------------------------------------------------------------------
(* Module-level constants of the program *)

\* lines 3-18: a template literal that opens and closes with a line break; the
\* middle symbol stands for the text of lines 4-17
SYSTEM_MESSAGE ==
    <<"\n", "You are a message formatter AI. [...] suitable for client communication.", "\n">>

\* lines 20-28
AI_PROMPT(userInput, modeInstruction) ==
    <<"\n", "Raw Input Text: ">> \o userInput
        \o <<"\n", "\n", "Instructions:", "\n">> \o modeInstruction
        \o <<"\n", "Output Goal:", "\n",
             "- Provide a clear, concise, and professionally rephrased message suitable for client communication.",
             "\n",
             "- Ensure the message is error-free, respectful, and easy to understand.",
             "\n">>

\* lines 30-35 (the typographic apostrophe of the Chat entry is written ')
MODE_INSTRUCTIONS ==
    JsObject(
      [Email |-> JsString(<<"Compose a formal, professionally-worded email, including appropriate greetings and closing remarks for client communication.">>),
       Chat |-> JsString(<<"Compose a friendly, concise chat message that's suitable for instant messaging with a client. Use a warm, approachable greeting, and keep the tone polite yet slightly informal.">>),
       Report |-> JsString(<<"Create a structured, professional report with key points organized clearly, suitable for client presentation.">>),
       Notification |-> JsString(<<"Draft a concise and polite notification, focusing on essential details and clarity, suitable for quick client updates.">>)])

DefaultInstruction ==
    <<"Provide a polite, professional message appropriate for client communication.">>

FailureMessage == <<"Sorry, something went wrong. Please try again.">>

\* line 37
openAiApiKey == <<"VITE_OPENAI_API_KEY">>

----------------------------------------------------------------------------
(* Prompt and request building *)

\* lines 52-58, with the two pieces of state the closure reads as parameters
getModeInstruction(m, custom) ==
    LET entry == GetProp(MODE_INSTRUCTIONS, m)
        baseInstruction == IF Truthy(entry) THEN entry ELSE JsString(DefaultInstruction)
    IN  IF Truthy(JsString(custom))
        THEN ToString(baseInstruction) \o <<" ">> \o custom
        ELSE ToString(baseInstruction)

\* JSON.stringify of one character of a string
JsonEscape(c) ==
    CASE c = "\n" -> "\\n"
      [] c = "\t" -> "\\t"
      [] c = "\r" -> "\\r"
      [] c = "\"" -> "\\\""
      [] c = "\\" -> "\\\\"
      [] OTHER -> c

\* JSON.stringify of a string
JsonString(s) == <<"\"">> \o [i \in 1..Len(s) |-> JsonEscape(s[i])] \o <<"\"">>

\* lines 75-83: JSON.stringify of the request object
RequestBody(userInput, modeInstruction) ==
    <<"{\"model\":\"gpt-4\",\"messages\":[{\"role\":\"system\",\"content\":">>
        \o JsonString(SYSTEM_MESSAGE)
        \o <<"},{\"role\":\"user\",\"content\":">>
        \o JsonString(AI_PROMPT(userInput, modeInstruction))
        \o <<"}],\"max_tokens\":1000,\"temperature\":0.5}">>

\* lines 69-84: the arguments of fetch, evaluated when handleSubmit runs
FetchRequest(userInput, m, custom) ==
    [url |-> "https://api.openai.com/v1/chat/completions",
     method |-> "POST",
     contentType |-> "application/json",
     authorization |-> <<"Bearer ">> \o openAiApiKey,
     body |-> RequestBody(userInput, getModeInstruction(m, custom))]


----------------------------------------------------------------------------
(* State *)

\* what the history variable records of a step
Event(ev, net, detail, fetches) ==
    [ev |-> ev, net |-> net, detail |-> detail, fetches |-> fetches]

\* lines 40-44
Init ==
    /\ inputMessage = <<>>
    /\ outputMessage = <<>>
    /\ loading = FALSE
    /\ mode = "Email"
    /\ customInstruction = <<>>
    /\ calls = <<>>
    /\ last = Event("init", "", <<>>, 0)

\* the sequence q without its i-th element
Without(q, i) == SubSeq(q, 1, i - 1) \o SubSeq(q, i + 1, Len(q))

----------------------------------------------------------------------------
(* Change handlers *)

\* an input handler that also clears the displayed answer
handleInputChangeClearing(value) ==
    /\ inputMessage' = value
    /\ outputMessage' = <<>>
    /\ last' = Event("handleInputChange", "", <<>>, 0)
    /\ UNCHANGED <<loading, mode, customInstruction, calls>>

\* line 47
handleInputChange(value) ==
    /\ inputMessage' = value
    /\ last' = Event("handleInputChange", "", <<>>, 0)
    /\ UNCHANGED <<outputMessage, loading, mode, customInstruction, calls>>

\* line 48
handleModeChange(value) ==
    /\ mode' = value
    /\ last' = Event("handleModeChange", "", <<>>, 0)
    /\ UNCHANGED <<inputMessage, outputMessage, loading, customInstruction, calls>>

\* line 49
handleCustomInstructionChange(value) ==
    /\ customInstruction' = value
    /\ last' = Event("handleCustomInstructionChange", "", <<>>, 0)
    /\ UNCHANGED <<inputMessage, outputMessage, loading, mode, calls>>

----------------------------------------------------------------------------
(* Submit handler *)

\* a submit control that is never disabled
NeverDisabled == FALSE

\* line 139: <button type="submit" disabled={loading}>, the form's only way to
\* raise a submit event
SubmitDisabled == loading

\* the guard without the trim: !inputMessage
EmptyUntrimmed(text) == ~Truthy(JsString(text))

\* line 63: !inputMessage.trim()
EmptySubmission(text) == ~Truthy(JsString(trim(text)))

\* a submit that leaves the earlier answer displayed
KeptOutput(previous) == previous

\* line 66: the value handleSubmit gives outputMessage before the request
ClearedOutput(previous) == <<>>

\* a handler that does not look at response.ok
StatusUnchecked(status) == FALSE

\* line 86
ResponseNotOk(status) == ~(status \in 200..299)

\* a catch block that only logs
UncaughtOutput(current) == current

\* line 94: the value the catch block gives outputMessage
CaughtOutput(current) == FailureMessage

\* loading reset nowhere
KeptLoading(current) == current

\* line 96: the value the finally block gives loading
FinallyLoading(current) == FALSE

\* data.choices[0].message.content, used without trim()
ContentUntrimmed(data) ==
    LET c == Member(Member(Element(Member(Normal(data), "choices"), 0), "message"), "content")
    IN  IF c.thrown \/ c.value.t # "string" THEN Thrown ELSE c

\* line 91: data.choices[0].message.content.trim()
ContentTrimmed(data) ==
    CallTrim(Member(Member(Element(Member(Normal(data), "choices"), 0), "message"), "content"))

\* lines 60-69: the synchronous part of handleSubmit, up to the await of fetch
handleSubmit ==
    /\ ~SubmitDisabled
    /\ Len(calls) < MaxCalls
    /\ IF EmptySubmission(inputMessage)
       THEN /\ last' = Event("handleSubmit:return", "", outputMessage, 0)
            /\ UNCHANGED <<inputMessage, outputMessage, loading, mode,
                           customInstruction, calls>>
       ELSE /\ loading' = TRUE
            /\ outputMessage' = ClearedOutput(outputMessage)
            /\ calls' = Append(calls,
                   [pc |-> "fetch",
                    request |-> FetchRequest(inputMessage, mode, customInstruction),
                    status |-> 0,
                    fetches |-> 1])
            /\ last' = Event("handleSubmit", "", outputMessage, 1)
            /\ UNCHANGED <<inputMessage, mode, customInstruction>>

\* a catch block that sends the request once more before giving up
RetryingCatchFinally(i, net) ==
    IF calls[i].fetches < 2
    THEN /\ calls' = [calls EXCEPT ![i].pc = "fetch", ![i].fetches = @ + 1]
         /\ last' = Event("retry", net, <<>>, calls[i].fetches + 1)
         /\ UNCHANGED <<inputMessage, outputMessage, loading, mode, customInstruction>>
    ELSE /\ outputMessage' = FailureMessage
         /\ loading' = FALSE
         /\ calls' = Without(calls, i)
         /\ last' = Event("settled", net, <<>>, calls[i].fetches)
         /\ UNCHANGED <<inputMessage, mode, customInstruction>>

\* lines 92-97: catch and finally, which end the invocation
CatchFinally(i, net) ==
    /\ outputMessage' = CaughtOutput(outputMessage)
    /\ loading' = FinallyLoading(loading)
    /\ calls' = Without(calls, i)
    /\ last' = Event("settled", net, <<>>, calls[i].fetches)
    /\ UNCHANGED <<inputMessage, mode, customInstruction>>

\* line 69: the promise of fetch rejects (a network failure)
FetchRejects(i) ==
    /\ i \in DOMAIN calls
    /\ calls[i].pc = "fetch"
    /\ CatchFinally(i, "rejected")

\* lines 69-90: the promise of fetch resolves with a response; a response that
\* is not ok throws, any other goes on to the await of response.json()
FetchResolves(i, status) ==
    /\ i \in DOMAIN calls
    /\ calls[i].pc = "fetch"
    /\ IF ResponseNotOk(status)
       THEN CatchFinally(i, "status")
       ELSE /\ calls' = [calls EXCEPT ![i].pc = "json", ![i].status = status]
            /\ last' = Event("response", "", <<>>, calls[i].fetches)
            /\ UNCHANGED <<inputMessage, outputMessage, loading, mode,
                           customInstruction>>

\* the net outcome of a body that was read: the status decides first
BodyOutcome(i, kind) == IF calls[i].status \in 200..299 THEN kind ELSE "status"

\* line 90: the promise of response.json() rejects (the body cannot be read or
\* is not JSON)
JsonRejects(i) ==
    /\ i \in DOMAIN calls
    /\ calls[i].pc = "json"
    /\ CatchFinally(i, BodyOutcome(i, "unreadable"))

\* lines 90-97: the promise of response.json() resolves with data; kind and
\* content say what the endpoint sent (content is the string at
\* choices[0].message.content when kind is "content")
JsonResolves(i, kind, data, content) ==
    /\ i \in DOMAIN calls
    /\ calls[i].pc = "json"
    /\ LET result == ContentTrimmed(data)
       IN  IF result.thrown
           THEN CatchFinally(i, BodyOutcome(i, kind))
           ELSE /\ outputMessage' = result.value.v
                /\ loading' = FinallyLoading(loading)
                /\ calls' = Without(calls, i)
                /\ last' = Event("settled", BodyOutcome(i, kind), content, calls[i].fetches)
                /\ UNCHANGED <<inputMessage, mode, customInstruction>>

----------------------------------------------------------------------------
(* The endpoint's bodies *)

\* {"choices":[{"message":{"content": c}}]}
Completion(c) ==
    JsObject([choices |-> JsArray(<<JsObject([message |-> JsObject([content |-> c])])>>)])

\* bodies that parse as JSON and have no string at choices[0].message.content
MalformedBodies ==
    << JsObject([error |-> JsString(<<"e">>)]),
       JsNull,
       JsNumber(7),
       JsString(<<"h">>),
       JsArray(<<JsString(<<"h">>)>>),
       JsObject([choices |-> JsNull]),
       JsObject([choices |-> JsArray(<<>>)]),
       JsObject([choices |-> JsString(<<"h">>)]),
       JsObject([choices |-> JsArray(<<JsObject([index |-> JsNumber(0)])>>)]),
       JsObject([choices |-> JsArray(<<JsObject([message |-> JsNull])>>)]),
       JsObject([choices |-> JsArray(<<JsObject([message |-> JsObject([role |-> JsString(<<"assistant">>)])])>>)]),
       Completion(JsNull),
       Completion(JsNumber(7)),
       Completion(JsArray(<<JsString(<<"h">>)>>)),
       Completion(JsObject([trim |-> JsString(<<"h">>)])) >>

----------------------------------------------------------------------------
(* Specification *)

CallIds == 1..MaxCalls

\* the outbound call resolves or rejects, or the reading of the body does
Settles ==
    \/ \E i \in CallIds : FetchRejects(i)
    \/ \E i \in CallIds, status \in StatusCodes : FetchResolves(i, status)
    \/ \E i \in CallIds : JsonRejects(i)
    \/ \E i \in CallIds, k \in DOMAIN MalformedBodies :
           JsonResolves(i, "malformed", MalformedBodies[k], <<>>)
    \/ \E i \in CallIds, s \in ReplyStrings :
           JsonResolves(i, "content", Completion(JsString(s)), s)

\* one step of the page, the user typing values of the given sets
Page(inputs, modes, customs) ==
    \/ \E value \in inputs : handleInputChange(value)
    \/ \E value \in modes : handleModeChange(value)
    \/ \E value \in customs : handleCustomInstructionChange(value)
    \/ handleSubmit
    \/ Settles

Next == Page(InputStrings, ModeValues, CustomStrings)

Spec == Init /\ [][Next]_vars

\* The specification of the progress property: the same handlers and the same
\* endpoint, the user typing from smaller sets, and the two awaits settling
\* eventually (the endpoint answers or the transport gives up).
FairInputs == StringsUpTo({" ", "a"}, MaxInputLen)
FairModes == {"Email", "Other"}
FairCustoms == {<<>>, <<"x">>}

FairNext == Page(FairInputs, FairModes, FairCustoms)

FairSpec == Init /\ [][FairNext]_vars /\ WF_vars(Settles)


----------------------------------------------------------------------------
(* Reference definitions the properties are stated with *)

\* every symbol of s is white space (so s, trimmed, is empty)
OnlyWhiteSpace(s) == \A i \in DOMAIN s : s[i] \in WhiteSpace

\* s from its first to its last symbol that is not white space
Stripped(s) ==
    LET solid == {i \in DOMAIN s : s[i] \notin WhiteSpace}
    IN  IF solid = {} THEN <<>>
        ELSE SubSeq(s, CHOOSE i \in solid : \A j \in solid : i <= j,
                       CHOOSE i \in solid : \A j \in solid : j <= i)

\* the instruction text as the specification gives it
ReferenceInstruction(m, custom) ==
    LET base ==
          CASE m = "Email" -> <<"Compose a formal, professionally-worded email, including appropriate greetings and closing remarks for client communication.">>
            [] m = "Chat" -> <<"Compose a friendly, concise chat message that's suitable for instant messaging with a client. Use a warm, approachable greeting, and keep the tone polite yet slightly informal.">>
            [] m = "Report" -> <<"Create a structured, professional report with key points organized clearly, suitable for client presentation.">>
            [] m = "Notification" -> <<"Draft a concise and polite notification, focusing on essential details and clarity, suitable for quick client updates.">>
            [] OTHER -> <<"Provide a polite, professional message appropriate for client communication.">>
    IN  IF custom = <<>> THEN base ELSE base \o <<" ">> \o custom

FailureOutcomes == {"rejected", "status", "unreadable", "malformed"}

SetterEvents == {"handleInputChange", "handleModeChange", "handleCustomInstructionChange"}

----------------------------------------------------------------------------
(* Properties *)

\* C1: a submit whose inputMessage, trimmed, is empty issues no request and
\* leaves outputMessage and loading as they were, whatever the other fields hold.
C1_EmptyInputIsNoOp ==
    [][(last'.ev \in {"handleSubmit", "handleSubmit:return"} /\ OnlyWhiteSpace(inputMessage))
         => (calls' = calls /\ outputMessage' = outputMessage /\ loading' = loading)]_vars

\* a submit of a white-space-only input ran while an earlier answer was displayed
C1_Witness ==
    /\ last.ev = "handleSubmit:return"
    /\ inputMessage # <<>>
    /\ OnlyWhiteSpace(inputMessage)
    /\ outputMessage # <<>>
    /\ mode # "Email"
    /\ customInstruction # <<>>

\* C2: a submission that failed (the fetch rejected, the status was not a
\* success, or the body could not be read or lacks a string at
\* choices[0].message.content) settles with outputMessage the failure string.
C2_FailureGivesFixedMessage ==
    (last.ev = "settled" /\ last.net \in FailureOutcomes)
        => outputMessage = FailureMessage

\* a submission settled on a body that parsed and had the wrong shape
C2_Witness ==
    /\ last.ev = "settled"
    /\ last.net = "malformed"
    /\ outputMessage = FailureMessage

\* C3: a submission answered with a success status and a string content settles
\* with outputMessage that content without its leading and trailing white space.
C3_SuccessGivesTrimmedContent ==
    (last.ev = "settled" /\ last.net = "content")
        => outputMessage = Stripped(last.detail)

\* a reply with white space on both sides was displayed without it
C3_Witness ==
    /\ last.ev = "settled"
    /\ last.net = "content"
    /\ last.detail = <<" ", "h", " ">>
    /\ outputMessage = <<"h">>

\* C4: once loading is true it becomes false again, given that the outbound
\* call and the reading of its body eventually resolve or reject.
C4_LoadingIsReset == loading ~> ~loading

\* a submission that set loading has settled and loading is false
C4_Witness ==
    /\ last.ev = "settled"
    /\ last.fetches = 1
    /\ ~loading

\* C5: while a submission's request is unresolved, loading is true and
\* outputMessage is empty, whatever it held before the submission.
C5_ClearedWhileInFlight ==
    calls # <<>> => (loading /\ outputMessage = <<>>)

\* a submission started while an earlier answer was displayed
C5_Witness ==
    /\ last.ev = "handleSubmit"
    /\ last.detail # <<>>
    /\ calls # <<>>
    /\ calls[1].pc = "fetch"

\* C6: getModeInstruction() is the reference function of mode and
\* customInstruction, for every mode value and every customInstruction.
C6_InstructionIsReference ==
    getModeInstruction(mode, customInstruction)
        = ReferenceInstruction(mode, customInstruction)

\* C7: while a request has not settled the submit control is disabled (loading
\* is true), and at most one request is in flight.
C7_OneRequestInFlight ==
    /\ calls # <<>> => (loading /\ SubmitDisabled)
    /\ Len(calls) <= 1

\* the user kept editing the form while the one request was in flight
C7_Witness ==
    /\ Len(calls) = 1
    /\ calls[1].pc = "fetch"
    /\ last.ev \in SetterEvents
    /\ loading

\* C8 as stated: in the settled state loading is false and outputMessage is
\* non-empty, for every response of the endpoint.
C8_SettledOutputNonEmpty ==
    last.ev = "settled" => (~loading /\ outputMessage # <<>>)

\* C8 as amended: in the settled state loading is false, nothing is in flight,
\* and outputMessage is the failure string or the trimmed reply; it is empty
\* exactly when the reply's content is empty or only white space.
C8_SettledOutput ==
    last.ev = "settled" =>
        /\ ~loading
        /\ calls = <<>>
        /\ \/ outputMessage = FailureMessage
           \/ last.net = "content" /\ outputMessage = Stripped(last.detail)
        /\ outputMessage = <<>> <=> (last.net = "content" /\ OnlyWhiteSpace(last.detail))

\* a reply of white space only settled with nothing to display
C8_Witness ==
    /\ last.ev = "settled"
    /\ last.net = "content"
    /\ last.detail # <<>>
    /\ outputMessage = <<>>
    /\ ~loading

\* C9: a submission issues one request over its whole lifetime, failed or not.
C9_OneRequestPerSubmission ==
    /\ \A i \in DOMAIN calls : calls[i].fetches = 1
    /\ last.ev = "settled" => last.fetches = 1

\* a submission that met a non-success status settled after its one request
C9_Witness ==
    /\ last.ev = "settled"
    /\ last.net = "status"
    /\ last.fetches = 1
    /\ calls = <<>>

\* C10: each setter changes its own field only; the request of a submission is
\* built from the fields as they are when submit runs and no setter changes it
\* afterwards; what the submission settles to depends on the response alone.
C10_SettersFrame ==
    [][/\ last'.ev = "handleInputChange"
            => UNCHANGED <<outputMessage, loading, mode, customInstruction, calls>>
       /\ last'.ev = "handleModeChange"
            => UNCHANGED <<outputMessage, loading, inputMessage, customInstruction, calls>>
       /\ last'.ev = "handleCustomInstructionChange"
            => UNCHANGED <<outputMessage, loading, inputMessage, mode, calls>>
       /\ last'.ev = "handleSubmit"
            => calls'[Len(calls')].request
                 = FetchRequest(inputMessage, mode, customInstruction)
       /\ last'.ev = "settled"
            => outputMessage' = IF last'.net = "content"
                                THEN Stripped(last'.detail)
                                ELSE FailureMessage]_vars

\* a setter ran while a request built from the earlier fields was in flight
C10_Witness ==
    /\ last.ev \in SetterEvents
    /\ calls # <<>>
    /\ calls[1].request # FetchRequest(inputMessage, mode, customInstruction)

====
